---------------------------- MODULE Spec2Model ----------------------------
(***************************************************************************)
(* A model of the binary-encoded genetic algorithm that searches for an     *)
(* arithmetic expression evaluating to a target number.                     *)
(*                                                                          *)
(* Two implementations live in the repository: the complete program         *)
(* (typescript/src/util.ts, with runAlgorithm) and an earlier "linear"      *)
(* version (unnamed/part_000) with its own cleanChromosome and              *)
(* evaluateFitness.  Definitions modelled on the latter carry the suffix    *)
(* _part000.                                                                *)
(*                                                                          *)
(* JavaScript numbers are modelled as exact rationals <<p, q>> (q > 0, in   *)
(* lowest terms) extended with NaN = <<0,0>>, Infinity = <<1,0>> and        *)
(* -Infinity = <<-1,0>>.  Rounding of doubles is not modelled.  A negative  *)
(* zero cannot influence any result here: the only divisors are digit       *)
(* literals and 1/|x|.                                                      *)
(*                                                                          *)
(* A value of Math.random() is modelled as k/RandDen with k in              *)
(* 0..RandDen-1 (0 included, 1 excluded); a rate is modelled as k/RandDen   *)
(* with k in 0..RandDen.                                                    *)
(***************************************************************************)
EXTENDS Integers, Sequences, FiniteSets, TLC

VARIABLES
  populationSize,          \* runAlgorithm's parameters
  crossoverRate,
  mutationRate,
  generationLimit,
  chromosomeLength,
  target,
  pc,                      \* position inside runAlgorithm
  initialChromPopulation,  \* const initialChromPopulation
  chromPopulation,         \* generationalStep's first argument
  generation,              \* generationalStep's second argument
  newChromPopulation,      \* the offspring collected so far in this generation
  parents,                 \* <<parent1, parent2>> of the running reproduce()
  offspring,               \* <<chrom1, chrom2>> of the running reproduce()
  reproductions,           \* number of reproduce() calls started so far
  winner,                  \* the organism picked at the end
  thrown,                  \* the exception that ended the run, or "none"
  call                     \* the function application of the unit harness

vars == <<populationSize, crossoverRate, mutationRate, generationLimit,
          chromosomeLength, target, pc, initialChromPopulation,
          chromPopulation, generation, newChromPopulation, parents,
          offspring, reproductions, winner, thrown, call>>

runVars == <<populationSize, crossoverRate, mutationRate, generationLimit,
             chromosomeLength, target, pc, initialChromPopulation,
             chromPopulation, generation, newChromPopulation, parents,
             offspring, reproductions, winner, thrown>>

(***************************************************************************)
(* Bounds of the model.                                                     *)
(***************************************************************************)
\* Math.random() takes the values k/RandDen, k in 0..RandDen-1.
RandDen == 4
\* Longest chromosome (in genes) given to the functions of the unit harness.
MaxGenes == 5
\* Largest population given to rouletteWheelSelection in the unit harness.
MaxRoulettePopulation == 3
\* Longest chromosome (in genes) given to crossover and mutate in the unit
\* harness.
MaxSmallGenes == 3
\* Largest populationSize of a run.
MaxPopulationSize == 4
\* Largest product of populationSize and chromosomeLength of a run.
MaxPopulationLength == 8
\* Largest generationLimit of a run.
MaxGenerationLimit == 2
\* Largest chromosomeLength parameter of a run.
MaxChromosomeLength == 4

Draws == 0 .. (RandDen - 1)
Bit == {0, 1}

(***************************************************************************)
(* util.ts: array utilities.                                                *)
(***************************************************************************)
Min(a, b) == IF a <= b THEN a ELSE b

\* buildArray(size): [...Array(size)] throws a RangeError for a negative size.
buildArrayThrows(size) == size < 0

\* repeat(x, n)
repeat(x, n) == [i \in 1 .. n |-> x]

\* chunksOf(n, xs): chunks of indexes first, then the elements at them.
chunksOf(n, xs) ==
  LET size == Len(xs) \div n
      initialChunks == [c \in 1 .. size |-> repeat(c - 1, n)]
      extraChunks == repeat(Len(initialChunks), Len(xs) % n)
      chunks == IF Len(extraChunks) > 0
                  THEN Append(initialChunks, extraChunks)
                  ELSE initialChunks
      indexes == [c \in 1 .. Len(chunks) |->
                    [idx \in 1 .. Len(chunks[c]) |->
                       (chunks[c][idx] * n) + (idx - 1)]]
  IN  [c \in 1 .. Len(indexes) |->
         [idx \in 1 .. Len(indexes[c]) |-> xs[indexes[c][idx] + 1]]]

\* zip(xs, ys): as long as the shorter of the two.
zip(xs, ys) == [i \in 1 .. Min(Len(xs), Len(ys)) |-> <<xs[i], ys[i]>>]

\* last(xs)
last(xs) == xs[Len(xs)]

\* xs.flat() and reduce((acc, x) => [...acc, ...x], []): concatenation.
flat(xss) ==
  LET acc[i \in 0 .. Len(xss)] ==
        IF i = 0 THEN <<>> ELSE acc[i - 1] \o xss[i]
  IN  acc[Len(xss)]

\* xs.slice(from) with a 0-based from.
slice(xs, from) ==
  IF from >= Len(xs) THEN <<>> ELSE SubSeq(xs, from + 1, Len(xs))

\* xs.slice(0, to)
sliceTo(xs, to) == SubSeq(xs, 1, Min(to, Len(xs)))

(***************************************************************************)
(* JavaScript numbers, as extended rationals.                               *)
(***************************************************************************)
NaN == <<0, 0>>
Infinity == <<1, 0>>
NegInfinity == <<-1, 0>>

Sgn(x) == IF x > 0 THEN 1 ELSE IF x < 0 THEN -1 ELSE 0
AbsInt(x) == IF x < 0 THEN -x ELSE x

RECURSIVE GCD(_, _)
GCD(a, b) == IF b = 0 THEN a ELSE GCD(b, a % b)

\* p/q with q > 0, in lowest terms.
Rat(p, q) ==
  LET g == GCD(AbsInt(p), q)
  IN  <<Sgn(p) * (AbsInt(p) \div g), q \div g>>

Whole(n) == <<n, 1>>
isNaN(a) == a = NaN
isFiniteNum(a) == a[2] > 0

numAdd(a, b) ==
  IF isNaN(a) \/ isNaN(b) THEN NaN
  ELSE IF a[2] = 0 /\ b[2] = 0 THEN (IF a = b THEN a ELSE NaN)
  ELSE IF a[2] = 0 THEN a
  ELSE IF b[2] = 0 THEN b
  ELSE Rat(a[1] * b[2] + b[1] * a[2], a[2] * b[2])

numNeg(a) == <<-a[1], a[2]>>

numSub(a, b) == numAdd(a, numNeg(b))

numMul(a, b) ==
  IF isNaN(a) \/ isNaN(b) THEN NaN
  ELSE IF a[2] = 0 \/ b[2] = 0
    THEN (IF a[1] * b[1] = 0 THEN NaN ELSE <<Sgn(a[1] * b[1]), 0>>)
  ELSE Rat(a[1] * b[1], a[2] * b[2])

\* a / b; a zero divisor is the positive zero.
numDiv(a, b) ==
  IF isNaN(a) \/ isNaN(b) THEN NaN
  ELSE IF b[2] = 0 THEN (IF a[2] = 0 THEN NaN ELSE Whole(0))
  ELSE IF b[1] = 0 THEN (IF a[1] = 0 THEN NaN ELSE <<Sgn(a[1]), 0>>)
  ELSE IF a[2] = 0 THEN <<Sgn(a[1]) * Sgn(b[1]), 0>>
  ELSE Rat(a[1] * b[2] * Sgn(b[1]), a[2] * AbsInt(b[1]))

\* Math.abs
numAbs(a) == <<AbsInt(a[1]), a[2]>>

\* a >= b and a > b on numbers; false when either is NaN.
numGeq(a, b) ==
  IF isNaN(a) \/ isNaN(b) THEN FALSE
  ELSE IF a[2] = 0 /\ b[2] = 0 THEN a[1] >= b[1]
  ELSE IF a[2] = 0 THEN a[1] > 0
  ELSE IF b[2] = 0 THEN b[1] < 0
  ELSE a[1] * b[2] >= b[1] * a[2]

numGt(a, b) == numGeq(a, b) /\ a # b

\* sum(ns)
sum(ns) ==
  LET acc[i \in 0 .. Len(ns)] ==
        IF i = 0 THEN Whole(0) ELSE numAdd(acc[i - 1], ns[i])
  IN  acc[Len(ns)]

\* scan((x, y) => x + y, initial, values), the only use of scan:
\* [initial, initial + v1, initial + v1 + v2, ...], one element longer than
\* values.
scan(initial, values) ==
  LET acc[i \in 0 .. Len(values)] ==
        IF i = 0 THEN <<initial>>
        ELSE Append(acc[i - 1], numAdd(last(acc[i - 1]), values[i]))
  IN  acc[Len(values)]

(***************************************************************************)
(* Allele table and gene codec.                                             *)
(***************************************************************************)
numberAlleles ==
  { <<0, 0, 0, 0>>, <<0, 0, 0, 1>>, <<0, 0, 1, 0>>, <<0, 0, 1, 1>>,
    <<0, 1, 0, 0>>, <<0, 1, 0, 1>>, <<0, 1, 1, 0>>, <<0, 1, 1, 1>>,
    <<1, 0, 0, 0>>, <<1, 0, 0, 1>> }

operatorAlleles == { <<0, 0>>, <<0, 1>>, <<1, 0>>, <<1, 1>> }

isNumber(gene) == gene \in numberAlleles

isOperator(gene) == gene \in operatorAlleles

geneValue(gene) ==
  IF isNumber(gene) THEN
    CASE gene = <<0, 0, 0, 0>> -> "0"
      [] gene = <<0, 0, 0, 1>> -> "1"
      [] gene = <<0, 0, 1, 0>> -> "2"
      [] gene = <<0, 0, 1, 1>> -> "3"
      [] gene = <<0, 1, 0, 0>> -> "4"
      [] gene = <<0, 1, 0, 1>> -> "5"
      [] gene = <<0, 1, 1, 0>> -> "6"
      [] gene = <<0, 1, 1, 1>> -> "7"
      [] gene = <<1, 0, 0, 0>> -> "8"
      [] gene = <<1, 0, 0, 1>> -> "9"
  ELSE IF isOperator(gene) THEN
    CASE gene = <<0, 0>> -> "+"
      [] gene = <<0, 1>> -> "-"
      [] gene = <<1, 0>> -> "*"
      [] gene = <<1, 1>> -> "/"
  ELSE "(junk)"

(***************************************************************************)
(* Chromosome cleaner.                                                      *)
(***************************************************************************)
\* The pairs that survive the two filters of cleanChromosome.
cleanPairs(chromosome) ==
  LET genes == << <<0, 0>> >> \o chromosome
      pairs == chunksOf(2, genes)
      whole == SelectSeq(pairs, LAMBDA pair : Len(pair) = 2)
  IN  SelectSeq(whole, LAMBDA pair : geneValue(pair[2]) # "(junk)")

\* A plausible slip: the junk digit genes are filtered out one by one, and
\* their operators stay.
cleanChromosomeDropDigitOnly(chromosome) ==
  SelectSeq(chromosome, LAMBDA gene : geneValue(gene) # "(junk)")

\* A plausible slip: the synthetic "plus" gene is not removed.
cleanChromosomeNoSlice(chromosome) == flat(cleanPairs(chromosome))

\* util.ts: reduce starts from [].
cleanChromosome(chromosome) == slice(flat(cleanPairs(chromosome)), 1)

\* What a function that may throw gives back.
Returned(value) == [thrown |-> "none", value |-> value]
Threw(error, noValue) == [thrown |-> error, value |-> noValue]

\* part_000: reduce without an initial value throws a TypeError on an empty
\* array; otherwise it starts from the first pair.
cleanChromosome_part000(chromosome) ==
  IF Len(cleanPairs(chromosome)) = 0
    THEN Threw("TypeError", <<>>)
    ELSE Returned(slice(flat(cleanPairs(chromosome)), 1))

(***************************************************************************)
(* Fitness evaluator.                                                       *)
(***************************************************************************)
\* The math string, as the sequence of the values that join(" ") separates
\* by blanks.
mathStrOf(chromosome) == [i \in 1 .. Len(chromosome) |-> geneValue(chromosome[i])]

digitOf(v) ==
  CASE v = "0" -> 0 [] v = "1" -> 1 [] v = "2" -> 2 [] v = "3" -> 3
    [] v = "4" -> 4 [] v = "5" -> 5 [] v = "6" -> 6 [] v = "7" -> 7
    [] v = "8" -> 8 [] v = "9" -> 9

\* eval of "d (op d)*" from the operator at position i on: acc is the sum of
\* the terms closed so far, term the running product, sign the sign of it.
RECURSIVE evalFrom(_, _, _, _, _)
evalFrom(toks, i, acc, sign, term) ==
  LET signed == IF sign = 1 THEN term ELSE numNeg(term)
  IN  IF i > Len(toks) THEN numAdd(acc, signed)
      ELSE LET d == Whole(digitOf(toks[i + 1]))
           IN  CASE toks[i] = "*" -> evalFrom(toks, i + 2, acc, sign, numMul(term, d))
                 [] toks[i] = "/" -> evalFrom(toks, i + 2, acc, sign, numDiv(term, d))
                 [] toks[i] = "+" -> evalFrom(toks, i + 2, numAdd(acc, signed), 1, d)
                 [] toks[i] = "-" -> evalFrom(toks, i + 2, numAdd(acc, signed), -1, d)

\* Number(eval(mathStr)): eval("") is undefined, and Number(undefined) is NaN.
evaluateMath(mathStr) ==
  IF Len(mathStr) = 0 THEN NaN
  ELSE evalFrom(mathStr, 2, Whole(0), 1, Whole(digitOf(mathStr[1])))

\* part_000: the fitness of an evaluated result n against target t,
\* 1 / |(target - n) + 1|.
fitnessOfResult_part000(n, t) ==
  IF isNaN(n) \/ n = Infinity THEN Whole(0)
  ELSE numDiv(Whole(1), numAbs(numAdd(numSub(t, n), Whole(1))))

\* util.ts: the fitness of an evaluated result n against target t,
\* 1 / (|target - n| + 1).
fitnessOfResult(n, t) ==
  IF isNaN(n) \/ n = Infinity THEN Whole(0)
  ELSE numDiv(Whole(1), numAdd(numAbs(numSub(t, n)), Whole(1)))

\* util.ts
evaluateFitness(chromosome, t) ==
  fitnessOfResult(evaluateMath(mathStrOf(cleanChromosome(chromosome))), t)

\* part_000: the cleaner's TypeError propagates.
evaluateFitness_part000(chromosome, t) ==
  IF cleanChromosome_part000(chromosome).thrown # "none"
    THEN Threw(cleanChromosome_part000(chromosome).thrown, NaN)
    ELSE Returned(fitnessOfResult_part000(
           evaluateMath(mathStrOf(cleanChromosome_part000(chromosome).value)),
           t))

(***************************************************************************)
(* Reproduction engine: selection, crossover, mutation.                     *)
(***************************************************************************)
\* Math.random() * x for the draw k/RandDen.
randomTimes(k, x) == numMul(Rat(k, RandDen), x)

\* The cumulative fitnesses rouletteWheelSelection pairs with the organisms:
\* scan seeded with fitnesses[0], cut by zip to the population's length.
cumulFitnesses(population) ==
  LET fitnesses == [i \in 1 .. Len(population) |-> population[i].fitness]
  IN  scan(fitnesses[1], fitnesses)

\* withCumulativeFitnesses.find(([_, cf]) => cf >= r): the 1-based index of
\* the pair found, 0 for undefined.
rouletteWheelFound(population, k) ==
  LET fitnesses == [i \in 1 .. Len(population) |-> population[i].fitness]
      totalFitness == sum(fitnesses)
      withCumulativeFitnesses == zip(population, cumulFitnesses(population))
      r == randomTimes(k, totalFitness)
      hits == {i \in 1 .. Len(withCumulativeFitnesses) :
                 numGeq(withCumulativeFitnesses[i][2], r)}
  IN  IF hits = {} THEN 0 ELSE CHOOSE i \in hits : \A j \in hits : i <= j

\* The 1-based index of the organism rouletteWheelSelection returns.
rouletteWheelSelection(population, k) ==
  IF rouletteWheelFound(population, k) = 0
    THEN Len(population)
    ELSE rouletteWheelFound(population, k)

\* crossover(x, y, crossoverRate) with the draws r (whether) and p (where).
crossover(x, y, rate, r, p) ==
  IF r <= rate
    THEN LET position == (p * Len(x)) \div RandDen
         IN  << sliceTo(x, position) \o slice(y, position),
                sliceTo(y, position) \o slice(x, position) >>
    ELSE <<x, y>>

flipBit(bit) == IF bit = 0 THEN 1 ELSE 0

mutateBit(bit, rate, r) == IF r <= rate THEN flipBit(bit) ELSE bit

\* mutate(chromosome, mutationRate); draws[i][j] is the draw for bit j of
\* gene i.  A gene that is neither a number nor an operator is returned as is.
mutate(chromosome, rate, draws) ==
  [i \in 1 .. Len(chromosome) |->
     LET gene == chromosome[i]
     IN  IF isNumber(gene)
           THEN [j \in 1 .. 4 |-> mutateBit(gene[j], rate, draws[i][j])]
         ELSE IF isOperator(gene)
           THEN [j \in 1 .. 2 |-> mutateBit(gene[j], rate, draws[i][j])]
         ELSE gene]

\* The numbers of number and operator genes randomChromosome asks for.
numberGeneCount(length) == length \div 2
operatorGeneCount(length) == (length - 2) \div 2

\* A plausible slip: the last number gene is not appended after the pairs.
randomChromosomeNoLast(numberGenes, operatorGenes) ==
  flat(zip(numberGenes, operatorGenes))

\* randomChromosome(length), given the random genes drawn.
randomChromosome(numberGenes, operatorGenes) ==
  flat(zip(numberGenes, operatorGenes)) \o <<last(numberGenes)>>

(***************************************************************************)
(* Inputs of the unit harness.                                              *)
(***************************************************************************)
\* Digits 0, 1, 2, 3 and a junk pattern.
NumberGeneSample ==
  { <<0, 0, 0, 0>>, <<0, 0, 0, 1>>, <<0, 0, 1, 0>>, <<0, 0, 1, 1>>,
    <<1, 1, 1, 1>> }

\* A chromosome has a 4-bit gene at every even (0-based) index and a 2-bit
\* gene at every odd one.
RECURSIVE ChromosomesOfLen(_, _, _)
ChromosomesOfLen(n, numbers, operators) ==
  IF n = 0 THEN {<<>>}
  ELSE { Append(c, g) :
           c \in ChromosomesOfLen(n - 1, numbers, operators),
           g \in (IF n % 2 = 1 THEN numbers ELSE operators) }

\* The example chromosome of part_000: 6 + 5 * 4 / 2 - (junk) + 1.
chrom1 ==
  << <<0, 1, 1, 0>>, <<0, 0>>, <<0, 1, 0, 1>>, <<1, 0>>, <<0, 1, 0, 0>>,
     <<1, 1>>, <<0, 0, 1, 0>>, <<0, 1>>, <<1, 1, 1, 1>>, <<0, 0>>,
     <<0, 0, 0, 1>> >>

Chromosomes ==
  UNION { ChromosomesOfLen(n, NumberGeneSample, operatorAlleles) :
            n \in 0 .. MaxGenes }
    \cup {chrom1}

TargetSample == {Whole(-1), Whole(0), Whole(2), Whole(3), Whole(42)}

\* Fitnesses 0, 1/3, 1/2 and 1.
FitnessSample == {Whole(0), Rat(1, 3), Rat(1, 2), Whole(1)}

Populations ==
  UNION { [1 .. n -> [chromosome : {<<>>}, fitness : FitnessSample]] :
            n \in 1 .. MaxRoulettePopulation }

\* Rates 0, 1/2 (rounded down to the grid) and 1.
RateSample == {0, RandDen \div 2, RandDen}

\* The chromosomes given to crossover and mutate.
SmallNumberGenes == { <<0, 0, 0, 1>>, <<1, 1, 1, 1>> }
SmallOperatorGenes == { <<0, 0>>, <<1, 1>> }
SmallChromosomes ==
  UNION { ChromosomesOfLen(n, SmallNumberGenes, SmallOperatorGenes) :
            n \in 0 .. MaxSmallGenes }

\* The draws of one mutate call: the same draw for every bit, or the draw 0
\* for one bit and the largest draw for all others.
MutationDraws(n) ==
  { [i \in 1 .. n |-> [j \in 1 .. 4 |-> k]] : k \in Draws }
    \cup { [i \in 1 .. n |-> [j \in 1 .. 4 |->
              IF i = i0 /\ j = j0 THEN 0 ELSE RandDen - 1]] :
             i0 \in 1 .. n, j0 \in 1 .. 4 }

(***************************************************************************)
(* The unit harness: one application of one function to inputs drawn from   *)
(* the sets above.                                                          *)
(***************************************************************************)
CallsIdle ==
  /\ populationSize = 0 /\ crossoverRate = 0 /\ mutationRate = 0
  /\ generationLimit = 0 /\ chromosomeLength = 0 /\ target = Whole(0)
  /\ pc = "idle" /\ initialChromPopulation = <<>> /\ chromPopulation = <<>>
  /\ generation = 0 /\ newChromPopulation = <<>> /\ parents = <<>>
  /\ offspring = <<>> /\ reproductions = 0 /\ winner = "none"
  /\ thrown = "none"

InitCalls == CallsIdle /\ call = [fn |-> "none"]

CallRouletteWheelSelection ==
  /\ call.fn = "none"
  /\ \E population \in Populations, k \in Draws :
       call' = [fn |-> "rouletteWheelSelection",
                population |-> population,
                k |-> k,
                found |-> rouletteWheelFound(population, k),
                result |-> rouletteWheelSelection(population, k)]
  /\ UNCHANGED runVars

CallCleanChromosome ==
  /\ call.fn = "none"
  /\ \E c \in Chromosomes :
       call' = [fn |-> "cleanChromosome", version |-> "util",
                chromosome |-> c, thrown |-> "none",
                result |-> cleanChromosome(c)]
  /\ UNCHANGED runVars

CallCleanChromosome_part000 ==
  /\ call.fn = "none"
  /\ \E c \in Chromosomes :
       call' = [fn |-> "cleanChromosome", version |-> "part_000",
                chromosome |-> c,
                thrown |-> cleanChromosome_part000(c).thrown,
                result |-> cleanChromosome_part000(c).value]
  /\ UNCHANGED runVars

CallEvaluateFitness ==
  /\ call.fn = "none"
  /\ \E c \in Chromosomes, t \in TargetSample :
       call' = [fn |-> "evaluateFitness", version |-> "util",
                chromosome |-> c, target |-> t, thrown |-> "none",
                result |-> evaluateFitness(c, t)]
  /\ UNCHANGED runVars

CallEvaluateFitness_part000 ==
  /\ call.fn = "none"
  /\ \E c \in Chromosomes, t \in TargetSample :
       call' = [fn |-> "evaluateFitness", version |-> "part_000",
                chromosome |-> c, target |-> t,
                thrown |-> evaluateFitness_part000(c, t).thrown,
                result |-> evaluateFitness_part000(c, t).value]
  /\ UNCHANGED runVars

CallCrossover ==
  /\ call.fn = "none"
  /\ \E x \in SmallChromosomes, rate \in RateSample, r \in Draws, p \in Draws :
       \E y \in {c \in SmallChromosomes : Len(c) = Len(x)} :
         call' = [fn |-> "crossover", x |-> x, y |-> y, rate |-> rate,
                  r |-> r, p |-> p, result |-> crossover(x, y, rate, r, p)]
  /\ UNCHANGED runVars

CallMutate ==
  /\ call.fn = "none"
  /\ \E c \in SmallChromosomes, rate \in RateSample :
       \E draws \in MutationDraws(Len(c)) :
         call' = [fn |-> "mutate", chromosome |-> c, rate |-> rate,
                  draws |-> draws, result |-> mutate(c, rate, draws)]
  /\ UNCHANGED runVars

\* Gene sequences in any order of widths, as the type Gene[] allows them.
GeneSequences ==
  UNION { [1 .. n -> SmallNumberGenes \cup SmallOperatorGenes] :
            n \in 0 .. MaxSmallGenes }

\* cleanChromosome of one version, as a record of what it threw and returned.
cleanChromosomeOf(version, c) ==
  IF version = "util" THEN Returned(cleanChromosome(c))
  ELSE cleanChromosome_part000(c)

\* cleanChromosome(cleanChromosome(c)): the inner call's error, if any, is
\* the error of the whole expression.
CallCleanChromosomeTwice ==
  /\ call.fn = "none"
  /\ \E version \in {"util", "part_000"}, c \in Chromosomes \cup GeneSequences :
       LET once == cleanChromosomeOf(version, c)
           again == IF once.thrown = "none"
                      THEN cleanChromosomeOf(version, once.value)
                      ELSE once
       IN  call' = [fn |-> "cleanChromosomeTwice", version |-> version,
                    chromosome |-> c,
                    thrown |-> once.thrown, result |-> once.value,
                    thrownAgain |-> again.thrown, resultAgain |-> again.value]
  /\ UNCHANGED runVars

NextCalls ==
  \/ CallRouletteWheelSelection
  \/ CallCleanChromosome
  \/ CallCleanChromosome_part000
  \/ CallEvaluateFitness
  \/ CallEvaluateFitness_part000
  \/ CallCrossover
  \/ CallMutate
  \/ CallCleanChromosomeTwice

SpecCalls == InitCalls /\ [][NextCalls]_vars

(***************************************************************************)
(* runAlgorithm.  pc follows the call: "start" (before the initial          *)
(* population is created), "generationalStep" (at the stopping condition),  *)
(* "reproduce" (between two reproduce() calls of one generation),           *)
(* "crossover" and "mutate" (inside reproduce()), "final" (the final        *)
(* population was returned), "done" (the winner was picked) and "threw".    *)
(***************************************************************************)
\* The genes randomGene draws in a run: the digit 3 and the junk pattern
\* that is its complement; "*".
RunNumberGenes == { <<0, 0, 1, 1>>, <<1, 1, 0, 0>> }
RunOperatorGenes == { <<1, 0>> }

\* The rates of a run: crossover at the draw 0 only with every bit flipped,
\* or crossover always with a bit flipped at the draw 0 only.
RunRates == { <<0, RandDen>>, <<RandDen, 0>> }

\* The draws of one mutate call in a run: the same draw for every bit.
RunMutationDraws(n) ==
  { [i \in 1 .. n |-> [j \in 1 .. 4 |-> k]] : k \in Draws }

\* The target of the program's own run.
RunTarget == Whole(42)

\* The chromosomes randomChromosome(length) can give with these genes.
RandomChromosomes(length) ==
  { randomChromosome(numberGenes, operatorGenes) :
      numberGenes \in [1 .. numberGeneCount(length) -> RunNumberGenes],
      operatorGenes \in [1 .. operatorGeneCount(length) -> RunOperatorGenes] }

\* A plausible slip: the stopping condition lets one more generation run.
stoppingConditionOffByOne(n, limit) == n > limit

\* The stopping condition of generationalStep.
stoppingCondition(n, limit) == n >= limit

\* The number of reproduce() calls of one generation.
reproduceCalls(size) == size \div 2

\* The organisms of a population of chromosomes, with their fitness.
organismsOf(chroms, t) ==
  [i \in 1 .. Len(chroms) |->
     [chromosome |-> chroms[i], fitness |-> evaluateFitness(chroms[i], t)]]

\* reduce((best, organism) => organism.fitness > best.fitness ? organism :
\* best) on a non-empty population: the first organism of greatest fitness.
pickWinner(population) ==
  LET best[i \in 1 .. Len(population)] ==
        IF i = 1 THEN population[1]
        ELSE IF numGt(population[i].fitness, best[i - 1].fitness)
          THEN population[i]
          ELSE best[i - 1]
  IN  best[Len(population)]

Init ==
  /\ populationSize \in 1 .. MaxPopulationSize
  /\ chromosomeLength \in 0 .. MaxChromosomeLength
  /\ populationSize * chromosomeLength <= MaxPopulationLength
  /\ \E rates \in RunRates :
       crossoverRate = rates[1] /\ mutationRate = rates[2]
  /\ generationLimit \in 0 .. MaxGenerationLimit
  /\ target = RunTarget
  /\ pc = "start"
  /\ initialChromPopulation = <<>>
  /\ chromPopulation = <<>>
  /\ generation = 0
  /\ newChromPopulation = <<>>
  /\ parents = <<>>
  /\ offspring = <<>>
  /\ reproductions = 0
  /\ winner = "none"
  /\ thrown = "none"
  /\ call = [fn |-> "none"]

params == <<populationSize, crossoverRate, mutationRate, generationLimit,
            chromosomeLength, target>>

\* buildArray(populationSize).map(_ => randomChromosome(chromosomeLength)),
\* then generationalStep(initialChromPopulation, 0).
CreatePopulation ==
  /\ pc = "start"
  /\ IF populationSize > 0
        /\ (\/ buildArrayThrows(numberGeneCount(chromosomeLength))
            \/ buildArrayThrows(operatorGeneCount(chromosomeLength)))
       THEN /\ thrown' = "RangeError"
            /\ pc' = "threw"
            /\ UNCHANGED <<initialChromPopulation, chromPopulation>>
       ELSE /\ \E population \in
                   [1 .. populationSize -> RandomChromosomes(chromosomeLength)] :
                 /\ initialChromPopulation' = population
                 /\ chromPopulation' = population
            /\ pc' = "generationalStep"
            /\ UNCHANGED thrown
  /\ UNCHANGED <<params, generation, newChromPopulation, parents, offspring,
                 reproductions, winner, call>>

\* The head of generationalStep: return the population, or start to map
\* reproduce over buildArray(Math.floor(populationSize / 2)).
GenerationalStep ==
  /\ pc = "generationalStep"
  /\ IF stoppingCondition(generation, generationLimit)
       THEN pc' = "final"
       ELSE pc' = "reproduce"
  /\ newChromPopulation' = <<>>
  /\ UNCHANGED <<params, initialChromPopulation, chromPopulation, generation,
                 parents, offspring, reproductions, winner, thrown, call>>

\* The map over buildArray(Math.floor(populationSize / 2)) has calls left.
reproduceCallsLeft ==
  Len(newChromPopulation) < 2 * reproduceCalls(populationSize)

\* Step 5 of one reproduce(): two draws of the roulette wheel on the
\* population scored at the start of the generation.
Select ==
  /\ pc = "reproduce"
  /\ reproduceCallsLeft
  /\ \E k1 \in Draws, k2 \in Draws :
       LET population == organismsOf(chromPopulation, target)
       IN  parents' =
             << population[rouletteWheelSelection(population, k1)].chromosome,
                population[rouletteWheelSelection(population, k2)].chromosome >>
  /\ reproductions' = reproductions + 1
  /\ pc' = "crossover"
  /\ UNCHANGED <<params, initialChromPopulation, chromPopulation, generation,
                 newChromPopulation, offspring, winner, thrown, call>>

\* Step 6
Crossover ==
  /\ pc = "crossover"
  /\ \E r \in Draws, p \in Draws :
       offspring' = crossover(parents[1], parents[2], crossoverRate, r, p)
  /\ pc' = "mutate"
  /\ UNCHANGED <<params, initialChromPopulation, chromPopulation, generation,
                 newChromPopulation, parents, reproductions, winner, thrown,
                 call>>

\* Step 7, and the return of reproduce(): .flat() appends the two children,
\* and the locals of reproduce() are gone.
Mutate ==
  /\ pc = "mutate"
  /\ \E d1 \in RunMutationDraws(Len(offspring[1])),
        d2 \in RunMutationDraws(Len(offspring[2])) :
       newChromPopulation' =
         newChromPopulation \o
           << mutate(offspring[1], mutationRate, d1),
              mutate(offspring[2], mutationRate, d2) >>
  /\ parents' = <<>>
  /\ offspring' = <<>>
  /\ pc' = "reproduce"
  /\ UNCHANGED <<params, initialChromPopulation, chromPopulation, generation,
                 reproductions, winner, thrown, call>>

\* Step 9: generationalStep(newChromPopulation, generation + 1).
Recurse ==
  /\ pc = "reproduce"
  /\ ~reproduceCallsLeft
  /\ chromPopulation' = newChromPopulation
  /\ generation' = generation + 1
  /\ pc' = "generationalStep"
  /\ UNCHANGED <<params, initialChromPopulation, newChromPopulation, parents,
                 offspring, reproductions, winner, thrown, call>>

\* Step 10: score the final population and reduce it to the winner; reduce
\* of an empty array without an initial value throws a TypeError.
PickWinner ==
  /\ pc = "final"
  /\ IF Len(chromPopulation) = 0
       THEN /\ thrown' = "TypeError"
            /\ pc' = "threw"
            /\ UNCHANGED winner
       ELSE /\ winner' = pickWinner(organismsOf(chromPopulation, target))
            /\ pc' = "done"
            /\ UNCHANGED thrown
  /\ UNCHANGED <<params, initialChromPopulation, chromPopulation, generation,
                 newChromPopulation, parents, offspring, reproductions, call>>

Next ==
  \/ CreatePopulation
  \/ GenerationalStep
  \/ Select
  \/ Crossover
  \/ Mutate
  \/ Recurse
  \/ PickWinner

Spec == Init /\ [][Next]_vars

(***************************************************************************)
(* Properties of the functions, checked under SpecCalls.                    *)
(***************************************************************************)
\* The elements of xs at the indexes in S, in their order in xs.
SubseqAt(xs, S) ==
  LET acc[i \in 0 .. Len(xs)] ==
        IF i = 0 THEN <<>>
        ELSE IF i \in S THEN Append(acc[i - 1], xs[i]) ELSE acc[i - 1]
  IN  acc[Len(xs)]

\* 1-based positions: the digit genes sit at the odd ones.
IsDigitPos(i) == i % 2 = 1
IsJunkAt(c, i) == geneValue(c[i]) = "(junk)"
ValidDigitAt(c, i) == IsDigitPos(i) /\ ~IsJunkAt(c, i)
AllDigitsJunk(c) == \A i \in 1 .. Len(c) : IsDigitPos(i) => IsJunkAt(c, i)
StartsAndEndsWithDigit(c) == Len(c) % 2 = 1

FitnessesOf(population) ==
  [i \in 1 .. Len(population) |-> population[i].fitness]

\* f[1] + ... + f[i]
PrefixSum(f, i) == sum(SubSeq(f, 1, i))

\* The smallest index whose prefix sum is >= r, the last index when there is
\* none.
FirstPrefixSumGeq(f, r) ==
  LET hits == {i \in 1 .. Len(f) : numGeq(PrefixSum(f, i), r)}
  IN  IF hits = {} THEN Len(f) ELSE CHOOSE i \in hits : \A j \in hits : i <= j

\* C1: for every non-empty population and every draw r in [0, totalFitness),
\* rouletteWheelSelection returns the organism at the smallest index i whose
\* prefix sum f[0]+...+f[i] is >= r, and the last organism when there is no
\* such index.
C1_RouletteReturnsFirstPrefixSumGeqR ==
  call.fn = "rouletteWheelSelection" =>
    call.result =
      FirstPrefixSumGeq(FitnessesOf(call.population),
                        randomTimes(call.k, sum(FitnessesOf(call.population))))

\* C2: when the total fitness is positive, rouletteWheelSelection returns
\* an organism of fitness 0 only through the fallback branch (nothing found).
C2_RouletteNeverSelectsZeroFitness ==
  (/\ call.fn = "rouletteWheelSelection"
   /\ numGt(sum(FitnessesOf(call.population)), Whole(0))
   /\ call.found # 0)
    => numGt(call.population[call.result].fitness, Whole(0))

\* The genes the claim as stated keeps: the non-junk digit genes and every
\* operator gene immediately before one.
KeptAsClaimed(c) ==
  {i \in 1 .. Len(c) :
     \/ ValidDigitAt(c, i)
     \/ ~IsDigitPos(i) /\ i < Len(c) /\ ValidDigitAt(c, i + 1)}

\* The genes the cleaner keeps: as above, but not the operator gene before
\* the first non-junk digit gene.
KeptByCleaner(c) ==
  {i \in 1 .. Len(c) :
     \/ ValidDigitAt(c, i)
     \/ /\ ~IsDigitPos(i) /\ i < Len(c) /\ ValidDigitAt(c, i + 1)
        /\ \E j \in 1 .. (i - 1) : ValidDigitAt(c, j)}

\* 6 + 5 * 4 / 2 + 1
chrom1Clean ==
  << <<0, 1, 1, 0>>, <<0, 0>>, <<0, 1, 0, 1>>, <<1, 0>>, <<0, 1, 0, 0>>,
     <<1, 1>>, <<0, 0, 1, 0>>, <<0, 0>>, <<0, 0, 0, 1>> >>

\* C3 as stated: for a chromosome of alternating genes that starts and ends
\* with a digit gene, cleanChromosome removes exactly the junk digit genes and
\* the operator gene immediately before each, and keeps every operator gene
\* that immediately precedes a non-junk digit gene.
C3_AsStated ==
  (/\ call.fn = "cleanChromosome" /\ call.version = "util"
   /\ StartsAndEndsWithDigit(call.chromosome))
    => call.result = SubseqAt(call.chromosome, KeptAsClaimed(call.chromosome))

\* C3, amended: for a chromosome of alternating genes that starts and ends
\* with a digit gene, cleanChromosome keeps, in their order, exactly the
\* non-junk digit genes and the operator gene immediately before each of them
\* except the first; the example chromosome cleans to 6 + 5 * 4 / 2 + 1 in
\* both versions.
C3_CleanKeepsValidDigitsAndTheirOperators ==
  /\ (/\ call.fn = "cleanChromosome" /\ call.version = "util"
      /\ StartsAndEndsWithDigit(call.chromosome))
       => call.result =
            SubseqAt(call.chromosome, KeptByCleaner(call.chromosome))
  /\ (call.fn = "cleanChromosome" /\ call.chromosome = chrom1)
       => call.thrown = "none" /\ call.result = chrom1Clean

\* A chromosome whose first digit gene is junk and that has a valid digit
\* gene later has been cleaned.
C3_Witness ==
  /\ call.fn = "cleanChromosome" /\ call.version = "util"
  /\ StartsAndEndsWithDigit(call.chromosome)
  /\ Len(call.chromosome) >= 5
  /\ IsJunkAt(call.chromosome, 1)
  /\ ValidDigitAt(call.chromosome, 3) /\ ValidDigitAt(call.chromosome, 5)
  /\ Len(call.result) = 3

\* digit (operator digit)*
WellFormed(c) ==
  /\ Len(c) % 2 = 1
  /\ \A i \in 1 .. Len(c) :
       /\ ~IsJunkAt(c, i)
       /\ IsDigitPos(i) => isNumber(c[i])
       /\ ~IsDigitPos(i) => isOperator(c[i])

\* C4: the output of cleanChromosome has no more genes than its input, and
\* if it is not empty it has the form digit (operator digit)*: first and last
\* genes are non-junk digit genes, digits and operators alternate, and no
\* gene is junk.
C4_CleanOutputWellFormed ==
  (call.fn = "cleanChromosome" /\ call.version = "util")
    => /\ Len(call.result) <= Len(call.chromosome)
       /\ call.result # <<>> => WellFormed(call.result)

\* A chromosome with a junk digit gene in the middle and an operator gene at
\* its end has been cleaned to a shorter, non-empty one.
C4_Witness ==
  /\ call.fn = "cleanChromosome" /\ call.version = "util"
  /\ Len(call.chromosome) = 4
  /\ ValidDigitAt(call.chromosome, 1) /\ IsJunkAt(call.chromosome, 3)
  /\ Len(call.result) = 1

\* The contract of C5 for one version of the code.
EmptyCleansToEmptyAndScoresZero(version) ==
  (call.fn \in {"cleanChromosome", "evaluateFitness"}
     /\ call.version = version /\ AllDigitsJunk(call.chromosome))
    => /\ call.thrown = "none"
       /\ call.fn = "cleanChromosome" => call.result = <<>>
       /\ call.fn = "evaluateFitness" => call.result = Whole(0)

\* C5: for a chromosome that is empty or whose digit genes are all junk,
\* cleanChromosome returns the empty chromosome and evaluateFitness returns
\* exactly 0 for every target, without raising an error (in both versions of
\* the code).
C5_EmptyCleansToEmptyAndScoresZero ==
  /\ EmptyCleansToEmptyAndScoresZero("util")
  /\ EmptyCleansToEmptyAndScoresZero("part_000")

\* The value of the clean expression of chromosome c.
CleanResult(c) == evaluateMath(mathStrOf(cleanChromosome(c)))

\* The fitness a version of the code gives an evaluated result.
FitnessIn(version, n, t) ==
  IF version = "util" THEN fitnessOfResult(n, t)
  ELSE fitnessOfResult_part000(n, t)

\* The contract of C6 for one version of the code.
FitnessIsInverseDistance(version) ==
  (/\ call.fn = "evaluateFitness" /\ call.version = version
   /\ isFiniteNum(CleanResult(call.chromosome)))
    => LET n == CleanResult(call.chromosome)
           t == call.target
           d == numAbs(numSub(t, n))
       IN  /\ call.thrown = "none"
           /\ isFiniteNum(call.result)
           /\ call.result[1] * (d[1] + d[2]) = d[2] * call.result[2]
           /\ numGt(call.result, Whole(0)) /\ numGeq(Whole(1), call.result)
           /\ call.result = Whole(1) <=> n = t
           /\ FitnessIn(version, numAdd(t, d), t)
                = FitnessIn(version, numSub(t, d), t)

\* C6: for every chromosome whose clean expression evaluates to a finite n
\* and every target, evaluateFitness returns 1 / (|target - n| + 1): it lies
\* in (0, 1], is 1 if and only if n = target, and is the same for
\* n = target + d and n = target - d (in both versions of the code).
C6_FitnessIsInverseDistance ==
  /\ FitnessIsInverseDistance("util")
  /\ FitnessIsInverseDistance("part_000")

\* C7: with mutationRate = 1, mutate flips every bit of every gene (digit,
\* operator and junk genes alike), whatever the draws.
C7_FullRateFlipsEveryBit ==
  (call.fn = "mutate" /\ call.rate = RandDen)
    => /\ Len(call.result) = Len(call.chromosome)
       /\ \A i \in 1 .. Len(call.chromosome) :
            /\ Len(call.result[i]) = Len(call.chromosome[i])
            /\ \A j \in 1 .. Len(call.chromosome[i]) :
                 call.result[i][j] = flipBit(call.chromosome[i][j])

\* C8: with crossoverRate = 0, crossover returns the two parents unchanged
\* and in the same order, for every draw in [0, 1), 0 included.
C8_ZeroRateReturnsParents ==
  (call.fn = "crossover" /\ call.rate = 0)
    => call.result = <<call.x, call.y>>

(***************************************************************************)
(* Properties of runAlgorithm.                                              *)
(***************************************************************************)
\* An odd populationSize, or a chromosomeLength that holds no digit gene.
MalformedConfiguration ==
  populationSize % 2 = 1 \/ numberGeneCount(chromosomeLength) < 1

\* C9: a malformed configuration is rejected before any population is
\* created or any generation runs, and is reported as a configuration error;
\* the run never goes on with another population size.
C9_MalformedConfigurationRejected ==
  MalformedConfiguration =>
    /\ pc \in {"start", "threw"}
    /\ pc = "threw" => thrown = "ConfigurationError"
    /\ initialChromPopulation = <<>>
    /\ generation = 0 /\ reproductions = 0

Ended == pc \in {"done", "threw"}

\* The steps of one generation: its head, three per reproduce() call, and
\* the recursive call.
StepsOfGeneration == 3 * reproduceCalls(populationSize) + 2

\* The steps a run has left when it does not throw.
StepsLeft ==
  LET reproduceLeft ==
        (generationLimit - generation - 1) * StepsOfGeneration + 3
          + 3 * (reproduceCalls(populationSize)
                   - (Len(newChromPopulation) \div 2))
  IN  CASE pc = "start" -> generationLimit * StepsOfGeneration + 3
        [] pc = "generationalStep" ->
             (generationLimit - generation) * StepsOfGeneration + 2
        [] pc = "reproduce" -> reproduceLeft
        [] pc = "crossover" -> reproduceLeft - 1
        [] pc = "mutate" -> reproduceLeft - 2
        [] pc = "final" -> 1
        [] OTHER -> 0

\* What C10 says of every state of a run.
LoopCountsToTheLimit ==
  /\ generation \in 0 .. generationLimit
  /\ reproductions <=
       generationLimit * reproduceCalls(populationSize)
  /\ pc \in {"reproduce", "crossover", "mutate"} => generation < generationLimit
  /\ (pc \in {"final", "done"} \/ (pc = "threw" /\ thrown = "TypeError"))
       => /\ generation = generationLimit
          /\ reproductions = generationLimit * reproduceCalls(populationSize)
  /\ (generationLimit = 0 /\ pc \notin {"start", "threw"})
       => /\ reproductions = 0
          /\ newChromPopulation = <<>>
          /\ chromPopulation = initialChromPopulation
  /\ (generationLimit = 0 /\ pc = "done")
       => \E i \in 1 .. Len(initialChromPopulation) :
            winner.chromosome = initialChromPopulation[i]

\* A step of the run can be taken: each position of pc has an action whose
\* other conditions are choices from non-empty sets.
HasNextStep ==
  /\ pc \in {"start", "generationalStep", "reproduce", "crossover", "mutate",
              "final"}
  /\ pc = "reproduce" =>
       \/ reproduceCallsLeft /\ Len(chromPopulation) > 0
       \/ ~reproduceCallsLeft
  /\ pc = "crossover" => Len(parents) = 2
  /\ pc = "mutate" => Len(offspring) = 2

\* C10: for every generationLimit >= 0 the generational loop ends after
\* exactly generationLimit transitions: the generation counter goes from 0 to
\* generationLimit and never beyond, the run is never stuck before its end
\* and every step of it brings the end nearer; with generationLimit = 0 no
\* selection, crossover or mutation happens and the winner comes from the
\* unchanged initial population.
C10_LoopEndsAfterGenerationLimitTransitions ==
  /\ [](LoopCountsToTheLimit /\ StepsLeft >= 0 /\ (Ended \/ HasNextStep))
  /\ [][StepsLeft' < StepsLeft]_vars

\* A run of the largest generationLimit has picked its winner after two
\* reproduce() calls in every generation.
C10_Witness ==
  /\ pc = "done"
  /\ generationLimit = MaxGenerationLimit
  /\ generation = generationLimit
  /\ populationSize = 4
  /\ reproductions = 2 * generationLimit

(***************************************************************************)
(* Idempotence of the cleaner (SpecCalls).                                  *)
(***************************************************************************)
\* Cleaning twice gives what cleaning once gives, in one version of the code.
CleaningIsIdempotent(version) ==
  (call.fn = "cleanChromosomeTwice" /\ call.version = version)
    => /\ call.thrown = "none"
       /\ call.thrownAgain = "none"
       /\ call.resultAgain = call.result

\* The same, for the chromosomes on which the first cleaning returns.
CleaningIsIdempotentWhereItReturns(version) ==
  (call.fn = "cleanChromosomeTwice" /\ call.version = version
     /\ call.thrown = "none")
    => /\ call.thrownAgain = "none"
       /\ call.resultAgain = call.result

\* C11: cleanChromosome(cleanChromosome(c)) equals cleanChromosome(c) for
\* every chromosome c, a junk first digit gene and an even number of genes
\* included (in both versions of the code).
C11_CleaningIsIdempotent ==
  /\ CleaningIsIdempotent("util")
  /\ CleaningIsIdempotent("part_000")

(***************************************************************************)
(* The shape of the populations of a run (Spec).                            *)
(***************************************************************************)
\* The configuration is well formed.
WellConfigured == populationSize % 2 = 0 /\ chromosomeLength >= 2

\* The number of genes of the chromosomes of generation 0.
GenesOfGeneration0 == Len(initialChromPopulation[1])

\* Chromosome c has n genes, a 4-bit gene at every even (0-based) index and
\* a 2-bit gene at every odd one, and starts and ends with a 4-bit gene, so
\* that it has one more 4-bit gene than 2-bit genes.
HasShape(c, n) ==
  /\ Len(c) = n
  /\ Len(c) % 2 = 1
  /\ \A i \in 1 .. Len(c) :
        /\ Len(c[i]) = (IF i % 2 = 1 THEN 4 ELSE 2)
        /\ \A j \in 1 .. Len(c[i]) : c[i][j] \in Bit
  /\ Cardinality({i \in 1 .. Len(c) : Len(c[i]) = 4})
       = Cardinality({i \in 1 .. Len(c) : Len(c[i]) = 2}) + 1

AllHaveShape(chroms) ==
  \A i \in 1 .. Len(chroms) : HasShape(chroms[i], GenesOfGeneration0)

\* C12: in a run with an even populationSize and chromosomeLength >= 2, the
\* population of every generation holds exactly populationSize chromosomes,
\* each with as many genes as in generation 0, 4-bit genes at even indexes
\* and 2-bit genes at odd ones, starting and ending with a 4-bit gene; the
\* parents selected, the children of crossover and of mutation and the next
\* population being collected have that shape too, and the next population
\* never outgrows populationSize.
C12_PopulationSizeAndShapeKept ==
  (WellConfigured /\ pc \notin {"start", "threw"}) =>
    /\ Len(initialChromPopulation) = populationSize
    /\ Len(chromPopulation) = populationSize
    /\ generation \in 0 .. generationLimit
    /\ AllHaveShape(initialChromPopulation)
    /\ AllHaveShape(chromPopulation)
    /\ AllHaveShape(parents)
    /\ AllHaveShape(offspring)
    /\ AllHaveShape(newChromPopulation)
    /\ Len(newChromPopulation) <= populationSize
    /\ pc = "generationalStep" => Len(newChromPopulation) \in {0, populationSize}

\* A run of three-gene chromosomes has ended after the largest number of
\* generations with a population that is not the initial one.
C12_Witness ==
  /\ WellConfigured
  /\ pc = "done"
  /\ generation = MaxGenerationLimit
  /\ chromosomeLength >= 4
  /\ Len(chromPopulation[1]) >= 3
  /\ chromPopulation # initialChromPopulation

=============================================================================
